---------------------------- MODULE Spec2Model ----------------------------
(***************************************************************************)
(* Model of the capture-and-assemble pipeline of backend/server.py:        *)
(* validate_speedtest_url, capture_speedtest_screenshot,                   *)
(* create_excel_with_screenshots and the process_speedtest handler.        *)
(*                                                                         *)
(* A text is a sequence of characters (one-character strings), so that     *)
(* str.strip and re.match are computed on the characters.  A formatted     *)
(* message f"lit{x}lit{y}" is the tuple of its pieces <<lit, x, lit, y>>.  *)
(* A handler is an asyncio task: the code between two awaits is one        *)
(* action, and the tasks of different requests interleave at the awaits.   *)
(***************************************************************************)
EXTENDS Integers, Sequences, FiniteSets, TLC

(***************************************************************************)
(* Bounds of the model.                                                    *)
(***************************************************************************)
MaxUrls == 3          \* longest request.urls in Spec
NumBatches == 2       \* concurrent requests in SpecPair
MaxNow == 2           \* wall-clock readings 0..MaxNow, in ticks
TicksPerSecond == 2   \* clock ticks per second: strftime keeps the second
MaxShots == 11        \* longest screenshot_data in SpecAsm
MaxDigits == 2        \* most characters after the letter segment in SpecValidate

Batches == 1..NumBatches

(***************************************************************************)
(* Texts.                                                                  *)
(***************************************************************************)
Prefix ==
    << "h","t","t","p","s",":","/","/","w","w","w",".","s","p","e","e","d",
       "t","e","s","t",".","n","e","t","/","m","y","-","r","e","s","u","l",
       "t","/" >>

\* str.strip() removes the characters for which str.isspace() is true
Whitespace == {" ", "\t", "\n", "\r"}

AsciiDigits == {"0", "1", "2", "3", "4", "5", "6", "7", "8", "9"}
\* \d of a str pattern is every Unicode decimal digit (category Nd); the
\* token below stands for one non-ASCII character of that category.
UnicodeDigits == {"ARABIC-INDIC DIGIT THREE"}
IsDigit(c) == c \in AsciiDigits \cup UnicodeDigits

RECURSIVE LStrip(_)
LStrip(s) ==
    IF s = << >> \/ Head(s) \notin Whitespace THEN s ELSE LStrip(Tail(s))

RECURSIVE RStrip(_)
RStrip(s) ==
    IF s = << >> \/ s[Len(s)] \notin Whitespace
    THEN s
    ELSE RStrip(SubSeq(s, 1, Len(s) - 1))

\* Strip that leaves the whitespace at the end
StripLeadingOnly(s) == LStrip(s)

\* str.strip()
Strip(s) == RStrip(LStrip(s))

\* PatternBody with the letter class [a-z] in place of (a|d|i)
PatternBodyAnyLetter(t) ==
    LET p == Len(Prefix) IN
    /\ Len(t) >= p + 3
    /\ SubSeq(t, 1, p) = Prefix
    /\ t[p + 1] \in {"a", "b", "d", "i"}
    /\ t[p + 2] = "/"
    /\ \A k \in (p + 3)..Len(t) : IsDigit(t[k])

\* the pattern between ^ and $ matched against the whole of t
PatternBody(t) ==
    LET p == Len(Prefix) IN
    /\ Len(t) >= p + 3
    /\ SubSeq(t, 1, p) = Prefix
    /\ t[p + 1] \in {"a", "d", "i"}
    /\ t[p + 2] = "/"
    /\ \A k \in (p + 3)..Len(t) : IsDigit(t[k])

\* re.match(pattern, s): $ matches at the end of s and also just before a
\* newline that ends s
ReMatch(s) ==
    \/ PatternBody(s)
    \/ /\ s # << >>
       /\ s[Len(s)] = "\n"
       /\ PatternBody(SubSeq(s, 1, Len(s) - 1))

validate_speedtest_url(url) == ReMatch(Strip(url))

(***************************************************************************)
(* The request texts the model draws from.                                 *)
(***************************************************************************)
UrlA1 == Prefix \o << "a", "/", "1" >>
UrlD22Padded == << " " >> \o Prefix \o << "d", "/", "2", "2" >> \o << " ", "\n" >>
UrlD22 == Prefix \o << "d", "/", "2", "2" >>
NotAUrl == << "n","o","t","-","a","-","u","r","l" >>
UrlB1 == Prefix \o << "b", "/", "1" >>
BlankText == << " ", "\t" >>

UrlPool == {UrlA1, UrlD22Padded, NotAUrl, UrlB1, BlankText}

RECURSIVE SeqsUpTo(_, _)
SeqsUpTo(S, n) ==
    IF n = 0
    THEN {<< >>}
    ELSE LET shorter == SeqsUpTo(S, n - 1) IN
         shorter \cup {Append(s, x) : s \in {t \in shorter : Len(t) = n - 1}, x \in S}

Requests == SeqsUpTo(UrlPool, MaxUrls)

(***************************************************************************)
(* Images and the worksheet of create_excel_with_screenshots.              *)
(***************************************************************************)
Png(w, h) == [format |-> "PNG", width |-> w, height |-> h]
NoBytes == [format |-> "", width |-> 0, height |-> 0]
\* bytes that are no image: Image.open raises on them
JunkBytes == [format |-> "junk", width |-> 0, height |-> 0]
\* page.screenshot(full_page=True, type='png') of the 1920x1080 viewport
ScreenshotBytes == {Png(1920, 1080)}

ImageOpenRaises(bytes) == bytes.format # "PNG"

\* aspect_ratio = height / width; resize to (400, int(400 * aspect_ratio))
ResizeImage(img) ==
    [format |-> "PNG", width |-> 400, height |-> (400 * img.height) \div img.width]

Letters ==
    << "A","B","C","D","E","F","G","H","I","J","K","L","M",
       "N","O","P","Q","R","S","T","U","V","W","X","Y","Z" >>

\* chr(n) for the code points of the capital letters
Chr(n) == Letters[n - 64]

\* chr(64 + col) if col <= 26 else f"A{chr(64 + col - 26)}"
ColumnLetter(col) ==
    IF col <= 26 THEN << Chr(64 + col) >> ELSE << "A", Chr(64 + col - 26) >>

\* CellPosition that leaves the row out of the cell name
CellPositionOfColumn(col, row) == << ColumnLetter(col), 1 >>

\* f"{col_letter}{current_row}"
CellPosition(col, row) == << ColumnLetter(col), row >>

\* the columns given width 20 in every workbook: range(1, 50)
WideColumns == {ColumnLetter(col) : col \in 1..49}

\* wb = Workbook(); ws = wb.active; ws.title: no cell set, no image added
NewSheet == [title |-> "Speedtest Results", cells |-> << >>, images |-> << >>]

\* the state of the placement loop before its first iteration
LoopStart ==
    [ws |-> NewSheet, current_row |-> 1, current_col |-> 1, images_in_row |-> 0]

\* WrapRow with the test images_in_row > 5
WrapRowLate(st) ==
    IF st.images_in_row > 5
    THEN [st EXCEPT !.current_row = @ + 30, !.current_col = 1, !.images_in_row = 0]
    ELSE st

\* the wrap test at the top of the placement: if images_in_row >= 5
WrapRow(st) ==
    IF st.images_in_row >= 5
    THEN [st EXCEPT !.current_row = @ + 30, !.current_col = 1, !.images_in_row = 0]
    ELSE st

\* ws[cell_position] = url
SetCell(cells, pos, url) == (pos :> url) @@ cells

\* LoopBody moving one column on, not two, after the image
LoopBodyNoSkip(st, entry) ==
    LET xl_img == ResizeImage(entry[2])
        at == WrapRow(st)
        cell_position == CellPosition(at.current_col, at.current_row)
    IN  [at EXCEPT
            !.ws.cells = SetCell(@, cell_position, entry[1]),
            !.ws.images = Append(@, [anchor |-> cell_position, img |-> xl_img]),
            !.current_col = @ + 1,
            !.images_in_row = @ + 1]

\* one iteration of the for loop over screenshot_data, the image decoded
LoopBody(st, entry) ==
    LET xl_img == ResizeImage(entry[2])
        at == WrapRow(st)
        cell_position == CellPosition(at.current_col, at.current_row)
    IN  [at EXCEPT
            !.ws.cells = SetCell(@, cell_position, entry[1]),
            !.ws.images = Append(@, [anchor |-> cell_position, img |-> xl_img]),
            !.current_col = @ + 2,
            !.images_in_row = @ + 1]

\* the whole for loop: raised as soon as an image cannot be opened
RECURSIVE PlaceAll(_, _)
PlaceAll(st, data) ==
    IF data = << >>
    THEN [raised |-> FALSE, st |-> st]
    ELSE IF ImageOpenRaises(Head(data)[2])
         THEN [raised |-> TRUE, st |-> st]
         ELSE PlaceAll(LoopBody(st, Head(data)), Tail(data))

\* Strftime with the format '%Y%m%d_%H%M': the minute the reading falls in
StrftimeMinutes(now) == now \div (TicksPerSecond * 60)

\* datetime.now().strftime('%Y%m%d_%H%M%S'): the second the reading falls in
Strftime(now) == now \div TicksPerSecond

FileName(now) == << "speedtest_results_", Strftime(now), ".xlsx" >>

\* str(temp_dir / name)
FilePath(name) == << "/tmp/speedtest_results", "/", name >>

Clock == 0..MaxNow

\* what the file system does to the save: it succeeds, temp_dir.mkdir raises,
\* or wb.save raises after the file was opened for writing
SaveFaults == {"none", "mkdir", "write"}

\* the reports directory after wb.save(str(file_path)) by request `by` at
\* clock reading `now`: the file of that name is created or replaced, its
\* modification time (kept to the second) being that of the save
SaveFile(dir, name, ws, by, now, fault) ==
    IF fault = "mkdir"
    THEN dir
    ELSE (name :> [ws |-> ws, by |-> by, mtime |-> now \div TicksPerSecond,
                   complete |-> (fault = "none")]) @@ dir

\* create_excel_with_screenshots returning the path whatever the save did
create_excel_ignoring_faults(screenshot_data, dir, by, now, fault) ==
    LET placed == PlaceAll(LoopStart, screenshot_data) IN
    [raised |-> << >>,
     file_path |-> FilePath(FileName(now)),
     dir |-> SaveFile(dir, FileName(now), placed.st.ws, by, now, fault)]

\* create_excel_with_screenshots(screenshot_data): the path returned or the
\* exception raised, and the reports directory afterwards
create_excel_with_screenshots(screenshot_data, dir, by, now, fault) ==
    LET placed == PlaceAll(LoopStart, screenshot_data) IN
    IF placed.raised
    THEN [raised |-> << "cannot identify image file" >>, file_path |-> << >>, dir |-> dir]
    ELSE [raised |-> IF fault = "none" THEN << >> ELSE << "OSError: ", fault >>,
          file_path |-> IF fault = "none" THEN FilePath(FileName(now)) ELSE << >>,
          dir |-> SaveFile(dir, FileName(now), placed.st.ws, by, now, fault)]

(***************************************************************************)
(* State.  Every variable but files, asm and probe is indexed by the       *)
(* request (the asyncio task running process_speedtest for it).            *)
(***************************************************************************)
VARIABLES
    pc,               \* where the task stands
    urls,             \* request.urls
    valid_urls,       \* process_speedtest: valid_urls
    invalid_urls,     \* process_speedtest: invalid_urls
    screenshot_data,  \* process_speedtest: screenshot_data
    errors,           \* process_speedtest: errors
    idx,              \* position of the capture loop in valid_urls
    calls,            \* the calls of capture_speedtest_screenshot, in order
    steps,            \* the page operations of the running call, in order
    exc,              \* the exception propagating out of the running call
    shot,             \* screenshot_bytes of the running call
    response,         \* what the handler answered
    files,            \* the directory /tmp/speedtest_results
    asm,              \* a call of create_excel_with_screenshots on its own
    probe             \* a call of validate_speedtest_url on its own

vars == << pc, urls, valid_urls, invalid_urls, screenshot_data, errors, idx,
           calls, steps, exc, shot, response, files, asm, probe >>

NoResponse ==
    [status |-> 0, detail |-> << >>, success |-> FALSE, message |-> << >>,
     file_path |-> << >>, errors |-> << >>]

\* raise HTTPException(status_code=status, detail=detail)
HTTPException(status, detail) == [NoResponse EXCEPT !.status = status, !.detail = detail]

\* no call of create_excel_with_screenshots has returned yet
NoRun == [ws |-> NewSheet, name |-> << >>, at |-> 0]

AsmIdle ==
    [phase |-> "idle", data |-> << >>, done |-> 0, st |-> LoopStart,
     run |-> 1, name |-> << >>, at |-> 0, first |-> NoRun]

ProbeIdle == [phase |-> "idle", url |-> << >>, result |-> FALSE]

\* PartitionUrls without `if not url: continue`
RECURSIVE PartitionUrlsKeepingBlanks(_, _, _)
PartitionUrlsKeepingBlanks(rest, valid, invalid) ==
    IF rest = << >>
    THEN [valid |-> valid, invalid |-> invalid]
    ELSE LET url == Strip(Head(rest)) IN
         IF validate_speedtest_url(url)
         THEN PartitionUrlsKeepingBlanks(Tail(rest), Append(valid, url), invalid)
         ELSE PartitionUrlsKeepingBlanks(Tail(rest), valid, Append(invalid, url))

\* the validation loop of process_speedtest over request.urls
RECURSIVE PartitionUrls(_, _, _)
PartitionUrls(rest, valid, invalid) ==
    IF rest = << >>
    THEN [valid |-> valid, invalid |-> invalid]
    ELSE LET url == Strip(Head(rest)) IN
         IF url = << >>
         THEN PartitionUrls(Tail(rest), valid, invalid)
         ELSE IF validate_speedtest_url(url)
              THEN PartitionUrls(Tail(rest), Append(valid, url), invalid)
              ELSE PartitionUrls(Tail(rest), valid, Append(invalid, url))

\* CaptureFailure with the wording of the logger.error line above it
CaptureFailureAsLogged(url, e) == << "Error capturing ", url, ": ", e >>

\* f"Failed to capture {url}: {str(e)}"
CaptureFailure(url, e) == << "Failed to capture ", url, ": ", e >>

\* f"Invalid URL: {url}"
InvalidNotice(url) == << "Invalid URL: ", url >>

\* [f"Invalid URL: {url}" for url in invalid_urls]
InvalidNotices(invalid) == [k \in 1..Len(invalid) |-> InvalidNotice(invalid[k])]

\* Validate without the check `if not valid_urls`
ValidateUnchecked(b) ==
    /\ pc[b] = "start"
    /\ LET part == PartitionUrls(urls[b], << >>, << >>) IN
       IF urls[b] = << >>
       THEN /\ response' = [response EXCEPT ![b] = HTTPException(400, << "No URLs provided" >>)]
            /\ pc' = [pc EXCEPT ![b] = "done"]
            /\ UNCHANGED << valid_urls, invalid_urls >>
       ELSE /\ valid_urls' = [valid_urls EXCEPT ![b] = part.valid]
            /\ invalid_urls' = [invalid_urls EXCEPT ![b] = part.invalid]
            /\ pc' = [pc EXCEPT ![b] = "loop"]
            /\ UNCHANGED response
    /\ UNCHANGED << urls, screenshot_data, errors, idx, calls, steps, exc, shot, files, asm, probe >>

(***************************************************************************)
(* process_speedtest up to its first await: the empty check, the           *)
(* validation loop and the check of valid_urls.                            *)
(***************************************************************************)
Validate(b) ==
    /\ pc[b] = "start"
    /\ LET part == PartitionUrls(urls[b], << >>, << >>) IN
       IF urls[b] = << >>
       THEN /\ response' = [response EXCEPT ![b] = HTTPException(400, << "No URLs provided" >>)]
            /\ pc' = [pc EXCEPT ![b] = "done"]
            /\ UNCHANGED << valid_urls, invalid_urls >>
       ELSE /\ valid_urls' = [valid_urls EXCEPT ![b] = part.valid]
            /\ invalid_urls' = [invalid_urls EXCEPT ![b] = part.invalid]
            /\ IF part.valid = << >>
               THEN /\ response' = [response EXCEPT ![b] =
                          HTTPException(400, << "No valid speedtest.net URLs found" >>)]
                    /\ pc' = [pc EXCEPT ![b] = "done"]
               ELSE /\ pc' = [pc EXCEPT ![b] = "loop"]
                    /\ UNCHANGED response
    /\ UNCHANGED << urls, screenshot_data, errors, idx, calls, steps, exc, shot, files, asm, probe >>

(***************************************************************************)
(* capture_speedtest_screenshot.  A call is recorded with the state of its *)
(* browser process and browser context: "none" (not created), "open",      *)
(* "closed" (by close()) or "killed" (with the Playwright driver).         *)
(***************************************************************************)
NewCall(url) ==
    [url |-> url, browser |-> "none", context |-> "none", in_try |-> FALSE,
     status |-> "running"]

Running(b) == calls[b][Len(calls[b])]

SetRunning(b, call) == [calls EXCEPT ![b] = [@ EXCEPT ![Len(@)] = call]]

\* await context.close()
CloseContext(call) == [call EXCEPT !.context = "closed"]

\* CloseBrowser left out of the finally block
CloseBrowserSkipped(call) == call

\* await browser.close()
CloseBrowser(call) == [call EXCEPT !.browser = "closed"]

\* StopPlaywright of a driver started without the `async with` block
StopPlaywrightLeaks(call) == call

\* leaving `async with async_playwright()`: the driver stops and takes the
\* browser processes it still runs with it
StopPlaywright(call) ==
    [call EXCEPT !.browser = IF @ = "open" THEN "killed" ELSE @,
                 !.context = IF @ = "open" THEN "killed" ELSE @]

Logged(b, step, ok) == [steps EXCEPT ![b] = Append(@, [step |-> step, ok |-> ok])]

CaptureFrame == << urls, valid_urls, invalid_urls, screenshot_data, errors, idx,
                   response, files, asm, probe >>

\* a step of the running call that succeeded: on to `to`
Proceed(b, step, to, call) ==
    /\ pc' = [pc EXCEPT ![b] = to]
    /\ calls' = SetRunning(b, call)
    /\ steps' = Logged(b, step, TRUE)
    /\ UNCHANGED << exc, shot >>

\* a step of the running call that raised e: on to `to`
Raise(b, step, to, e) ==
    /\ pc' = [pc EXCEPT ![b] = to]
    /\ exc' = [exc EXCEPT ![b] = e]
    /\ steps' = Logged(b, step, FALSE)
    /\ UNCHANGED << calls, shot >>

\* for url in valid_urls: the next call, or the end of the loop
ForUrl(b) ==
    /\ pc[b] = "loop"
    /\ IF idx[b] <= Len(valid_urls[b])
       THEN /\ calls' = [calls EXCEPT ![b] = Append(@, NewCall(valid_urls[b][idx[b]]))]
            /\ pc' = [pc EXCEPT ![b] = "launch"]
       ELSE /\ pc' = [pc EXCEPT ![b] = "after_loop"]
            /\ UNCHANGED calls
    /\ UNCHANGED << steps, exc, shot >>
    /\ UNCHANGED CaptureFrame

\* browser = await p.chromium.launch(...)
Launch(b) ==
    /\ pc[b] = "launch"
    /\ \/ Proceed(b, "launch", "new_context", [Running(b) EXCEPT !.browser = "open"])
       \/ Raise(b, "launch", "exit", << "launch" >>)
    /\ UNCHANGED CaptureFrame

\* context = await browser.new_context(...)
NewContext(b) ==
    /\ pc[b] = "new_context"
    /\ \/ Proceed(b, "new_context", "new_page", [Running(b) EXCEPT !.context = "open"])
       \/ Raise(b, "new_context", "exit", << "new_context" >>)
    /\ UNCHANGED CaptureFrame

\* page = await context.new_page(), then the try block is entered
NewPage(b) ==
    /\ pc[b] = "new_page"
    /\ \/ Proceed(b, "new_page", "goto", [Running(b) EXCEPT !.in_try = TRUE])
       \/ Raise(b, "new_page", "exit", << "new_page" >>)
    /\ UNCHANGED CaptureFrame

\* await page.goto(url, wait_until='domcontentloaded', timeout=60000)
Goto(b) ==
    /\ pc[b] = "goto"
    /\ \/ Proceed(b, "goto", "primary", Running(b))
       \/ Raise(b, "goto", "finally", << "goto" >>)
    /\ UNCHANGED CaptureFrame

\* WaitPrimary of try blocks written one after the other, not nested: the
\* second selector is waited for whatever the first wait did
WaitPrimaryUnnested(b) ==
    /\ pc[b] = "primary"
    /\ \/ Proceed(b, "primary", "secondary", Running(b))
       \/ /\ pc' = [pc EXCEPT ![b] = "secondary"]
          /\ steps' = Logged(b, "primary", FALSE)
          /\ UNCHANGED << calls, exc, shot >>
    /\ UNCHANGED CaptureFrame

\* await page.wait_for_selector('.result-container-speed-test', timeout=15000)
\* in a try whose bare except goes on to the second selector
WaitPrimary(b) ==
    /\ pc[b] = "primary"
    /\ \/ Proceed(b, "primary", "settle", Running(b))
       \/ /\ pc' = [pc EXCEPT ![b] = "secondary"]
          /\ steps' = Logged(b, "primary", FALSE)
          /\ UNCHANGED << calls, exc, shot >>
    /\ UNCHANGED CaptureFrame

\* WaitSecondary without the except clause around it: its failure leaves
\* the call
WaitSecondaryUnguarded(b) ==
    /\ pc[b] = "secondary"
    /\ \/ Proceed(b, "secondary", "settle", Running(b))
       \/ Raise(b, "secondary", "finally", << "wait_for_selector" >>)
    /\ UNCHANGED CaptureFrame

\* await page.wait_for_selector('.result-data', timeout=10000) in a try whose
\* bare except goes on to the fixed wait
WaitSecondary(b) ==
    /\ pc[b] = "secondary"
    /\ \/ Proceed(b, "secondary", "settle", Running(b))
       \/ /\ pc' = [pc EXCEPT ![b] = "fallback"]
          /\ steps' = Logged(b, "secondary", FALSE)
          /\ UNCHANGED << calls, exc, shot >>
    /\ UNCHANGED CaptureFrame

\* await page.wait_for_timeout(5000) inside the except clause: not guarded
WaitFallback(b) ==
    /\ pc[b] = "fallback"
    /\ \/ Proceed(b, "fallback", "settle", Running(b))
       \/ Raise(b, "fallback", "finally", << "wait_for_timeout" >>)
    /\ UNCHANGED CaptureFrame

\* await page.wait_for_timeout(2000)
Settle(b) ==
    /\ pc[b] = "settle"
    /\ \/ Proceed(b, "settle", "screenshot", Running(b))
       \/ Raise(b, "settle", "finally", << "wait_for_timeout" >>)
    /\ UNCHANGED CaptureFrame

\* screenshot_bytes = await page.screenshot(full_page=True, type='png')
Screenshot(b) ==
    /\ pc[b] = "screenshot"
    /\ \/ \E bytes \in ScreenshotBytes :
             /\ pc' = [pc EXCEPT ![b] = "finally"]
             /\ shot' = [shot EXCEPT ![b] = bytes]
             /\ steps' = Logged(b, "screenshot", TRUE)
             /\ UNCHANGED << calls, exc >>
       \/ Raise(b, "screenshot", "finally", << "screenshot" >>)
    /\ UNCHANGED CaptureFrame

\* finally: await context.close()
FinallyContext(b) ==
    /\ pc[b] = "finally"
    /\ pc' = [pc EXCEPT ![b] = "finally_browser"]
    /\ calls' = SetRunning(b, CloseContext(Running(b)))
    /\ UNCHANGED << steps, exc, shot >>
    /\ UNCHANGED CaptureFrame

\* finally: await browser.close()
FinallyBrowser(b) ==
    /\ pc[b] = "finally_browser"
    /\ pc' = [pc EXCEPT ![b] = "exit"]
    /\ calls' = SetRunning(b, CloseBrowser(Running(b)))
    /\ UNCHANGED << steps, exc, shot >>
    /\ UNCHANGED CaptureFrame

\* the call as it is once the `async with` block is left
Ended(call, e) ==
    [StopPlaywright(call) EXCEPT !.status = IF e = << >> THEN "returned" ELSE "raised"]

\* EndCapture with a failed call ending the loop
EndCaptureAborting(b) ==
    /\ pc[b] = "exit"
    /\ calls' = SetRunning(b, Ended(Running(b), exc[b]))
    /\ IF exc[b] = << >>
       THEN /\ screenshot_data' = [screenshot_data EXCEPT ![b] =
                    Append(@, << valid_urls[b][idx[b]], shot[b] >>)]
            /\ pc' = [pc EXCEPT ![b] = "loop"]
            /\ UNCHANGED errors
       ELSE /\ errors' = [errors EXCEPT ![b] =
                    Append(@, CaptureFailure(valid_urls[b][idx[b]], exc[b]))]
            /\ pc' = [pc EXCEPT ![b] = "after_loop"]
            /\ UNCHANGED screenshot_data
    /\ idx' = [idx EXCEPT ![b] = @ + 1]
    /\ steps' = [steps EXCEPT ![b] = << >>]
    /\ exc' = [exc EXCEPT ![b] = << >>]
    /\ shot' = [shot EXCEPT ![b] = NoBytes]
    /\ UNCHANGED << urls, valid_urls, invalid_urls, response, files, asm, probe >>

\* EndCapture with a failed capture tried again until it succeeds
EndCaptureRetrying(b) ==
    /\ pc[b] = "exit"
    /\ IF exc[b] = << >>
       THEN /\ calls' = SetRunning(b, Ended(Running(b), exc[b]))
            /\ screenshot_data' = [screenshot_data EXCEPT ![b] =
                    Append(@, << valid_urls[b][idx[b]], shot[b] >>)]
            /\ idx' = [idx EXCEPT ![b] = @ + 1]
            /\ pc' = [pc EXCEPT ![b] = "loop"]
       ELSE /\ calls' = SetRunning(b, NewCall(valid_urls[b][idx[b]]))
            /\ pc' = [pc EXCEPT ![b] = "launch"]
            /\ UNCHANGED << screenshot_data, idx >>
    /\ steps' = [steps EXCEPT ![b] = << >>]
    /\ exc' = [exc EXCEPT ![b] = << >>]
    /\ shot' = [shot EXCEPT ![b] = NoBytes]
    /\ UNCHANGED << urls, valid_urls, invalid_urls, errors, response, files, asm, probe >>

\* The `async with` block is left and the call returns or raises into the
\* loop of process_speedtest: screenshot_data.append((url, screenshot_bytes))
\* or, in the except clause, errors.append(f"Failed to capture ...").
EndCapture(b) ==
    /\ pc[b] = "exit"
    /\ calls' = SetRunning(b, Ended(Running(b), exc[b]))
    /\ IF exc[b] = << >>
       THEN /\ screenshot_data' = [screenshot_data EXCEPT ![b] =
                    Append(@, << valid_urls[b][idx[b]], shot[b] >>)]
            /\ UNCHANGED errors
       ELSE /\ errors' = [errors EXCEPT ![b] =
                    Append(@, CaptureFailure(valid_urls[b][idx[b]], exc[b]))]
            /\ UNCHANGED screenshot_data
    /\ idx' = [idx EXCEPT ![b] = @ + 1]
    /\ pc' = [pc EXCEPT ![b] = "loop"]
    /\ steps' = [steps EXCEPT ![b] = << >>]
    /\ exc' = [exc EXCEPT ![b] = << >>]
    /\ shot' = [shot EXCEPT ![b] = NoBytes]
    /\ UNCHANGED << urls, valid_urls, invalid_urls, response, files, asm, probe >>

(***************************************************************************)
(* process_speedtest after the capture loop: no await is left, so the      *)
(* check of screenshot_data, the assembly and the answer are one step.     *)
(***************************************************************************)
\* Success with the invalid-URL notices put before errors
SuccessNoticesFirst(data, file_path, errs, invalid) ==
    [status    |-> 200,
     detail    |-> << >>,
     success   |-> TRUE,
     message   |-> << "Successfully processed ", Len(data), " URLs" >>,
     file_path |-> file_path,
     errors    |-> InvalidNotices(invalid) \o errs]

\* the dict returned after create_excel_with_screenshots returned file_path
Success(data, file_path, errs, invalid) ==
    [status    |-> 200,
     detail    |-> << >>,
     success   |-> TRUE,
     message   |-> << "Successfully processed ", Len(data), " URLs" >>,
     file_path |-> file_path,
     errors    |-> errs \o InvalidNotices(invalid)]

\* Finish without the check `if not screenshot_data`
FinishUnchecked(b) ==
    /\ pc[b] = "after_loop"
    /\ pc' = [pc EXCEPT ![b] = "done"]
    /\ \E now \in Clock, fault \in SaveFaults :
          LET made == create_excel_with_screenshots(
                          screenshot_data[b], files, b, now, fault) IN
          /\ files' = made.dir
          /\ response' = [response EXCEPT ![b] =
                IF made.raised = << >>
                THEN Success(screenshot_data[b], made.file_path, errors[b],
                             invalid_urls[b])
                ELSE HTTPException(500,
                         << "Error creating Excel file: " >> \o made.raised)]
    /\ UNCHANGED << urls, valid_urls, invalid_urls, screenshot_data, errors, idx,
                    calls, steps, exc, shot, asm, probe >>

Finish(b) ==
    /\ pc[b] = "after_loop"
    /\ pc' = [pc EXCEPT ![b] = "done"]
    /\ IF screenshot_data[b] = << >>
       THEN /\ response' = [response EXCEPT ![b] =
                    HTTPException(500, << "Failed to capture any screenshots" >>)]
            /\ UNCHANGED files
       ELSE \E now \in Clock, fault \in SaveFaults :
               LET made == create_excel_with_screenshots(
                               screenshot_data[b], files, b, now, fault) IN
               /\ files' = made.dir
               /\ response' = [response EXCEPT ![b] =
                     IF made.raised = << >>
                     THEN Success(screenshot_data[b], made.file_path, errors[b],
                                  invalid_urls[b])
                     ELSE HTTPException(500,
                              << "Error creating Excel file: " >> \o made.raised)]
    /\ UNCHANGED << urls, valid_urls, invalid_urls, screenshot_data, errors, idx,
                    calls, steps, exc, shot, asm, probe >>

Step(b) ==
    \/ Validate(b)
    \/ ForUrl(b)
    \/ Launch(b)
    \/ NewContext(b)
    \/ NewPage(b)
    \/ Goto(b)
    \/ WaitPrimary(b)
    \/ WaitSecondary(b)
    \/ WaitFallback(b)
    \/ Settle(b)
    \/ Screenshot(b)
    \/ FinallyContext(b)
    \/ FinallyBrowser(b)
    \/ EndCapture(b)
    \/ Finish(b)

(***************************************************************************)
(* Spec: one request, its urls drawn from Requests.                        *)
(***************************************************************************)
Fresh(reqs, active) ==
    /\ urls = reqs
    /\ pc = [b \in Batches |-> IF b \in active THEN "start" ELSE "idle"]
    /\ valid_urls = [b \in Batches |-> << >>]
    /\ invalid_urls = [b \in Batches |-> << >>]
    /\ screenshot_data = [b \in Batches |-> << >>]
    /\ errors = [b \in Batches |-> << >>]
    /\ idx = [b \in Batches |-> 1]
    /\ calls = [b \in Batches |-> << >>]
    /\ steps = [b \in Batches |-> << >>]
    /\ exc = [b \in Batches |-> << >>]
    /\ shot = [b \in Batches |-> NoBytes]
    /\ response = [b \in Batches |-> NoResponse]
    /\ files = << >>

Init ==
    /\ \E r \in Requests : Fresh([b \in Batches |-> IF b = 1 THEN r ELSE << >>], {1})
    /\ asm = AsmIdle
    /\ probe = ProbeIdle

Next == Step(1)

Spec == Init /\ [][Next]_vars

(***************************************************************************)
(* SpecFair: one request of valid, invalid and blank entries, every await  *)
(* of its task completing: the browser operation awaited returns or        *)
(* raises, and the task is resumed.                                        *)
(***************************************************************************)
FairRequests == SeqsUpTo({UrlA1, NotAUrl, BlankText}, MaxUrls)

InitFair ==
    /\ \E r \in FairRequests : Fresh([b \in Batches |-> IF b = 1 THEN r ELSE << >>], {1})
    /\ asm = AsmIdle
    /\ probe = ProbeIdle

SpecFair == InitFair /\ [][Next]_vars /\ WF_vars(Next)

(***************************************************************************)
(* SpecPair: NumBatches requests handled at once, each task advancing from *)
(* await to await in any order.                                            *)
(***************************************************************************)
PairRequests == {<< UrlA1 >>}

InitPair ==
    /\ \E reqs \in [Batches -> PairRequests] : Fresh(reqs, Batches)
    /\ asm = AsmIdle
    /\ probe = ProbeIdle

NextPair == \E b \in Batches : Step(b)

SpecPair == InitPair /\ [][NextPair]_vars

(***************************************************************************)
(* SpecAsm: create_excel_with_screenshots called on a list of (url, bytes) *)
(* tuples, its for loop taken one iteration at a time.                     *)
(***************************************************************************)
AsmLabels == << UrlA1, UrlD22 >>

\* n entries: labels alternating from AsmLabels[first] (or all the same when
\* same), the bytes at position junk being no image (junk = 0: all are images)
AsmData(n, first, same, junk) ==
    [k \in 1..n |->
        << AsmLabels[IF same THEN first ELSE ((first + k) % 2) + 1],
           IF k = junk THEN JunkBytes ELSE Png(1920, 1080 * (1 + (k % 2))) >>]

AsmInputs ==
    {AsmData(n, first, same, junk) :
        n \in 0..MaxShots, first \in 1..2, same \in BOOLEAN, junk \in {0, 2, 7}}

InitAsm ==
    /\ \E data \in AsmInputs :
          asm = [AsmIdle EXCEPT !.phase = "loop", !.data = data]
    /\ Fresh([b \in Batches |-> << >>], {})
    /\ probe = ProbeIdle

\* one iteration of `for idx, (url, screenshot_bytes) in enumerate(...)`
AsmPlace ==
    /\ asm.phase = "loop"
    /\ asm.done < Len(asm.data)
    /\ LET entry == asm.data[asm.done + 1] IN
       IF ImageOpenRaises(entry[2])
       THEN asm' = [asm EXCEPT !.phase = "raised"]
       ELSE asm' = [asm EXCEPT !.done = @ + 1, !.st = LoopBody(@, entry)]
    /\ UNCHANGED << pc, urls, valid_urls, invalid_urls, screenshot_data, errors,
                    idx, calls, steps, exc, shot, response, files, probe >>

\* after the loop: temp_dir.mkdir, the file name from the clock, wb.save
AsmSave ==
    /\ asm.phase = "loop"
    /\ asm.done = Len(asm.data)
    /\ \E now \in Clock, fault \in SaveFaults :
          /\ files' = SaveFile(files, FileName(now), asm.st.ws, 0, now, fault)
          /\ asm' = [asm EXCEPT !.phase = IF fault = "none" THEN "saved" ELSE "raised",
                                !.name = IF fault = "none" THEN FileName(now) ELSE << >>,
                                !.at = now]
    /\ UNCHANGED << pc, urls, valid_urls, invalid_urls, screenshot_data, errors,
                    idx, calls, steps, exc, shot, response, probe >>

\* AsmAgain with the workbook and the cursor kept from the call before
AsmAgainKeepingSheet ==
    /\ asm.phase = "saved"
    /\ asm.run = 1
    /\ asm' = [asm EXCEPT !.phase = "loop", !.done = 0, !.run = 2,
                          !.first = [ws |-> asm.st.ws, name |-> asm.name, at |-> asm.at]]
    /\ UNCHANGED << pc, urls, valid_urls, invalid_urls, screenshot_data, errors,
                    idx, calls, steps, exc, shot, response, files, probe >>

\* the function is called a second time on the same list: a new Workbook
\* and the cursor at its start
AsmAgain ==
    /\ asm.phase = "saved"
    /\ asm.run = 1
    /\ asm' = [asm EXCEPT !.phase = "loop", !.done = 0, !.st = LoopStart, !.run = 2,
                          !.first = [ws |-> asm.st.ws, name |-> asm.name, at |-> asm.at]]
    /\ UNCHANGED << pc, urls, valid_urls, invalid_urls, screenshot_data, errors,
                    idx, calls, steps, exc, shot, response, files, probe >>

NextAsm == AsmPlace \/ AsmSave \/ AsmAgain

SpecAsm == InitAsm /\ [][NextAsm]_vars

(***************************************************************************)
(* SpecValidate: validate_speedtest_url called on one text.  The texts are *)
(* every combination of surrounding whitespace, a scheme-and-host part,    *)
(* the letter segment, up to MaxDigits characters after it and an ending.  *)
(***************************************************************************)
UpperScheme ==
    << "H","T","T","P","S" >> \o SubSeq(Prefix, 6, Len(Prefix))

UpperHost ==
    SubSeq(Prefix, 1, 8) \o << "W","W","W" >> \o SubSeq(Prefix, 12, Len(Prefix))

PlainHttp == SubSeq(Prefix, 1, 4) \o SubSeq(Prefix, 6, Len(Prefix))

ProbeLeads == {<< >>, << " " >>, << "\n", "\t" >>}
ProbeHeads == {Prefix, UpperScheme, UpperHost, PlainHttp}
ProbeLetters == {"a", "d", "i", "b", "A"}
ProbeDigits == SeqsUpTo({"0", "7", "ARABIC-INDIC DIGIT THREE"}, MaxDigits)
ProbeEnds ==
    {<< >>, << "/" >>, << "/", "2" >>, << "?", "x" >>, << "#", "f" >>, << "x" >>,
     << " " >>, << "\n" >>, << " ", "1" >>, << "\r", "\n" >>}

ProbeTexts ==
    {lead \o head \o << letter, "/" >> \o digits \o ending :
        lead \in ProbeLeads, head \in ProbeHeads, letter \in ProbeLetters,
        digits \in ProbeDigits, ending \in ProbeEnds}

InitValidate ==
    /\ \E url \in ProbeTexts : probe = [phase |-> "called", url |-> url, result |-> FALSE]
    /\ Fresh([b \in Batches |-> << >>], {})
    /\ asm = AsmIdle

\* the call returns bool(re.match(pattern, url.strip()))
ProbeReturn ==
    /\ probe.phase = "called"
    /\ probe' = [probe EXCEPT !.phase = "returned",
                              !.result = validate_speedtest_url(probe.url)]
    /\ UNCHANGED << pc, urls, valid_urls, invalid_urls, screenshot_data, errors,
                    idx, calls, steps, exc, shot, response, files, asm >>

NextValidate == ProbeReturn

SpecValidate == InitValidate /\ [][NextValidate]_vars

(***************************************************************************)
(* Vocabulary of the properties, stated on the request and on the record   *)
(* of calls rather than on the lists the handler builds.                   *)
(***************************************************************************)
NonBlank(u) == \E k \in DOMAIN u : u[k] \notin Whitespace

AllBlank(us) == \A k \in DOMAIN us : ~NonBlank(us[k])

\* u without its leading and trailing whitespace
Trimmed(u) ==
    IF \A k \in DOMAIN u : u[k] \in Whitespace
    THEN << >>
    ELSE SubSeq(u,
                CHOOSE k \in DOMAIN u :
                    u[k] \notin Whitespace /\ \A j \in 1..(k - 1) : u[j] \in Whitespace,
                CHOOSE k \in DOMAIN u :
                    u[k] \notin Whitespace /\ \A j \in (k + 1)..Len(u) : u[j] \in Whitespace)

\* https://www.speedtest.net/my-result/{a|d|i}/{one or more digits}
ShapeOK(u) ==
    LET t == Trimmed(u)
        p == Len(Prefix)
    IN  /\ Len(t) > p + 2
        /\ SubSeq(t, 1, p) = Prefix
        /\ t[p + 1] \in {"a", "d", "i"}
        /\ t[p + 2] = "/"
        /\ \A k \in (p + 3)..Len(t) : t[k] \in AsciiDigits

\* ShapeOK and Trimmed tabulated once for the texts requests are made of
ShapeTable == [u \in UrlPool |-> ShapeOK(u)]
TrimTable == [u \in UrlPool |-> Trimmed(u)]

HasShape(u) == ShapeTable[u]
LacksShape(u) == TrimTable[u] # << >> /\ ~ShapeTable[u]
TrimAll(us) == [k \in DOMAIN us |-> TrimTable[us[k]]]

\* the entries of a request that have the shape, trimmed, in input order
ValidInput(us) == TrimAll(SelectSeq(us, HasShape))

\* the non-blank entries of a request that lack the shape, trimmed
InvalidInput(us) == TrimAll(SelectSeq(us, LacksShape))

HasReturned(call) == call.status = "returned"
HasRaised(call) == call.status = "raised"
UrlsOf(cs) == [k \in DOMAIN cs |-> cs[k].url]

\* the URLs whose capture succeeded / failed, in the order of the attempts
ReturnedUrls(b) == UrlsOf(SelectSeq(calls[b], HasReturned))
RaisedUrls(b) == UrlsOf(SelectSeq(calls[b], HasRaised))

IsCaptureFailure(m) ==
    Len(m) = 4 /\ m[1] = "Failed to capture " /\ m[3] = ": "

IsAssemblyError(r) ==
    r.status = 500 /\ r.detail # << >> /\ r.detail[1] = "Error creating Excel file: "

\* the labels of a worksheet in the order its images were added
LabelsOf(ws) == [j \in DOMAIN ws.images |-> ws.cells[ws.images[j].anchor]]

\* the result of a batch with some but not all captures succeeded is a
\* success naming a report of exactly the captured pairs in input order
PartialSuccess(b) ==
    LET r == response[b]
        M == Len(ValidInput(urls[b]))
        N == Len(ReturnedUrls(b))
        name == r.file_path[3]
    IN  /\ r.success
        /\ r.status = 200
        /\ Len(SelectSeq(r.errors, IsCaptureFailure)) = M - N
        /\ UrlsOf(calls[b]) = ValidInput(urls[b])
        /\ Len(r.file_path) = 3
        /\ name \in DOMAIN files
        /\ files[name].complete
        /\ LabelsOf(files[name].ws) = ReturnedUrls(b)
        /\ Len(files[name].ws.images) = N

IsPartialBatch(b) ==
    /\ pc[b] = "done"
    /\ 0 < Len(ReturnedUrls(b))
    /\ Len(ReturnedUrls(b)) < Len(ValidInput(urls[b]))

\* C1 as stated: a finished batch in which N of the M valid URLs were
\* captured, 0 < N < M, answered success = true with exactly M - N
\* capture-failure messages and a report of exactly the N captured pairs in
\* input order.
C1_PartialBatchSucceeds == IsPartialBatch(1) => PartialSuccess(1)

\* C1 as amended: such a batch either fails with the assembly error
\* "Error creating Excel file: ..." or answers success = true with exactly
\* M - N capture-failure messages and a report of exactly the N captured
\* pairs in input order.
C1_PartialBatchSucceedsOrAssemblyFails ==
    IsPartialBatch(1) => (IsAssemblyError(response[1]) \/ PartialSuccess(1))

\* two different URLs captured and a third failed, the success answered
C1_Witness ==
    /\ IsPartialBatch(1)
    /\ response[1].success
    /\ ReturnedUrls(1) = << UrlD22, UrlA1 >>
    /\ Len(calls[1]) = 3

\* C2: a request without a non-blank entry is refused with status 400 (for
\* the empty list with "No URLs provided"), and at no time has a capture
\* been attempted or a report file been created for it.
C2_BlankInputRefused ==
    AllBlank(urls[1]) =>
        /\ calls[1] = << >>
        /\ files = << >>
        /\ pc[1] \in {"start", "done"}
        /\ pc[1] = "done" =>
              /\ response[1].status = 400
              /\ ~response[1].success
              /\ response[1].detail \in {<< "No URLs provided" >>,
                                         << "No valid speedtest.net URLs found" >>}
              /\ urls[1] = << >> => response[1].detail = << "No URLs provided" >>

\* a list of two whitespace-only entries was refused
C2_Witness ==
    /\ pc[1] = "done"
    /\ urls[1] = << BlankText, BlankText >>
    /\ response[1].status = 400

\* C3: a non-empty request none of whose entries has the shape is refused
\* with "No valid speedtest.net URLs found"; no capture call is ever made
\* for it and no report file is created.
C3_NoValidUrlRefused ==
    (urls[1] # << >> /\ ValidInput(urls[1]) = << >>) =>
        /\ calls[1] = << >>
        /\ files = << >>
        /\ pc[1] \in {"start", "done"}
        /\ pc[1] = "done" =>
              /\ response[1].status = 400
              /\ response[1].detail = << "No valid speedtest.net URLs found" >>

\* a request of a near miss, a non-URL and a blank was refused
C3_Witness ==
    /\ pc[1] = "done"
    /\ urls[1] = << UrlB1, NotAUrl, BlankText >>
    /\ response[1].detail = << "No valid speedtest.net URLs found" >>

\* the cell the layout law gives image j: band ceil(j/5), i.e. row
\* 1 + 30*(ceil(j/5) - 1), and column 1 + 2*((j-1) mod 5), by its letter
LawCell(j) == << << Letters[1 + 2 * ((j - 1) % 5)] >>, 1 + 30 * (((j + 4) \div 5) - 1) >>

\* C4: in create_excel_with_screenshots, after any number of iterations,
\* image j and the label of entry j stand at the cell of row
\* 1 + 30*(ceil(j/5) - 1) and column 1 + 2*((j-1) mod 5); nothing else is
\* written, so a band takes 5 images and the column after an image is blank.
C4_LayoutLaw ==
    LET ws == asm.st.ws IN
    /\ Len(ws.images) = asm.done
    /\ \A j \in 1..asm.done :
          /\ ws.images[j].anchor = LawCell(j)
          /\ ws.cells[LawCell(j)] = asm.data[j][1]
    /\ DOMAIN ws.cells = {LawCell(j) : j \in 1..asm.done}
    /\ \A r \in {pos[2] : pos \in DOMAIN ws.cells} :
          Cardinality({j \in 1..asm.done : LawCell(j)[2] = r}) <= 5

\* eleven images placed: two full bands and the first cell of the third
C4_Witness ==
    /\ asm.done = 11
    /\ asm.st.ws.images[11].anchor = << << "A" >>, 61 >>
    /\ asm.st.ws.images[10].anchor = << << "I" >>, 31 >>

\* C5: the errors of a success answer are one capture-failure message per
\* failed capture, in the order of the attempts, followed by one
\* "Invalid URL: ..." notice per non-blank entry of the request that lacks
\* the shape, in input order and trimmed.
C5_ErrorsOrder ==
    response[1].success =>
        LET errs == response[1].errors
            failed == RaisedUrls(1)
            inv == InvalidInput(urls[1])
        IN  /\ Len(errs) = Len(failed) + Len(inv)
            /\ \A k \in 1..Len(failed) :
                  IsCaptureFailure(errs[k]) /\ errs[k][2] = failed[k]
            /\ \A k \in 1..Len(inv) :
                  errs[Len(failed) + k] = << "Invalid URL: ", inv[k] >>

\* a success whose errors hold a capture failure and then a notice
C5_Witness ==
    /\ response[1].success
    /\ Len(response[1].errors) = 2
    /\ IsCaptureFailure(response[1].errors[1])
    /\ response[1].errors[2] = << "Invalid URL: ", NotAUrl >>

\* C6: the calls made are the valid entries of the request, each occurrence
\* once and in order; only the last call can be running; every ended call
\* left exactly one outcome (a success entry if it returned, a failure
\* message if it raised); and once the loop is over every valid entry has
\* been attempted and len(screenshot_data) + len(errors) = len(valid_urls).
C6_OneOutcomePerValidUrl ==
    LET V == ValidInput(urls[1])
        cs == calls[1]
    IN  /\ Len(cs) <= Len(V)
        /\ \A k \in 1..Len(cs) : cs[k].url = V[k]
        /\ \A k \in 1..(Len(cs) - 1) : cs[k].status # "running"
        /\ [k \in DOMAIN screenshot_data[1] |-> screenshot_data[1][k][1]] = ReturnedUrls(1)
        /\ [k \in DOMAIN errors[1] |-> errors[1][k][2]] = RaisedUrls(1)
        /\ \A k \in DOMAIN errors[1] : IsCaptureFailure(errors[1][k])
        /\ pc[1] \in {"after_loop", "done"} =>
              /\ Len(cs) = Len(V)
              /\ \A k \in 1..Len(cs) : cs[k].status # "running"
              /\ Len(screenshot_data[1]) + Len(errors[1]) = Len(valid_urls[1])
              /\ urls[1] # << >> => Len(valid_urls[1]) = Len(V)

\* the loop is over: the same URL failed and then succeeded, a third failed
C6_Witness ==
    /\ pc[1] = "after_loop"
    /\ Len(calls[1]) = 3
    /\ calls[1][1].url = calls[1][2].url
    /\ calls[1][1].status = "raised"
    /\ calls[1][2].status = "returned"
    /\ calls[1][3].status = "raised"

\* C7: a batch all of whose captures failed answers "Failed to capture any
\* screenshots", and only after every valid URL was attempted; no report
\* file exists then; and a report is written or an answer of the assembly
\* (a success or an assembly error) given only after a capture succeeded.
C7_CaptureExhausted ==
    LET M == Len(ValidInput(urls[1]))
        N == Len(ReturnedUrls(1))
        r == response[1]
    IN  /\ (pc[1] = "done" /\ M >= 1 /\ N = 0) =>
              /\ r.status = 500
              /\ r.detail = << "Failed to capture any screenshots" >>
              /\ ~r.success
              /\ files = << >>
        /\ r.detail = << "Failed to capture any screenshots" >> =>
              /\ Len(RaisedUrls(1)) = M
              /\ M >= 1
        /\ (files # << >> \/ r.success \/ IsAssemblyError(r)) => N >= 1

\* three valid URLs, three failed captures, the batch refused
C7_Witness ==
    /\ pc[1] = "done"
    /\ Len(RaisedUrls(1)) = 3
    /\ response[1].detail = << "Failed to capture any screenshots" >>

\* C8: no call of capture_speedtest_screenshot has ended with its browser
\* or its context open; and a call that reached the try block (it returned
\* the image, or raised in navigation, a wait, the settle delay or the
\* screenshot) ended with both closed by the finally block.
C8_ReleasedOnEveryExit ==
    \A k \in DOMAIN calls[1] :
        LET c == calls[1][k] IN
        c.status # "running" =>
            /\ c.browser # "open"
            /\ c.context # "open"
            /\ c.in_try => (c.browser = "closed" /\ c.context = "closed")

\* a call that raised while taking the screenshot ended, all closed
C8_Witness ==
    /\ Len(calls[1]) >= 1
    /\ calls[1][1].status = "raised"
    /\ calls[1][1].in_try
    /\ calls[1][1].browser = "closed"
    /\ Len(errors[1]) >= 1
    /\ errors[1][1][4] = << "screenshot" >>

\* C9: a batch never has more than one browser open; every call but the last
\* has ended with its browser released; and when a browser is about to be
\* launched no browser of the batch is open.
C9_OneBrowserAtATime ==
    LET cs == calls[1] IN
    /\ Cardinality({k \in DOMAIN cs : cs[k].browser = "open"}) <= 1
    /\ \A k \in 1..(Len(cs) - 1) :
          cs[k].status # "running" /\ cs[k].browser # "open" /\ cs[k].context # "open"
    /\ pc[1] = "launch" => \A k \in DOMAIN cs : cs[k].browser # "open"

\* the second browser of a batch is open, the first one released
C9_Witness ==
    /\ Len(calls[1]) = 2
    /\ calls[1][2].browser = "open"
    /\ calls[1][1].browser \in {"closed", "killed"}

\* C10 as stated: no step removes or changes a file of the reports directory.
C10_NeverOverwritten ==
    [][\A f \in DOMAIN files : f \in DOMAIN files' /\ files'[f] = files[f]]_vars

\* C10 as amended: no step removes a file, and a step changes an existing
\* file only by a save in the same clock second as the save that wrote it;
\* saves in different seconds write different files.
C10_OverwrittenOnlyWithinSecond ==
    [][\A f \in DOMAIN files :
          /\ f \in DOMAIN files'
          /\ files'[f] # files[f] => files'[f].mtime = files[f].mtime]_vars

\* two requests assembled in different seconds: two files, one of each
C10_Witness ==
    /\ \A b \in {1, 2} : response[b].success
    /\ response[1].file_path # response[2].file_path
    /\ \A b \in {1, 2} : files[response[b].file_path[3]].by = b


(***************************************************************************)
(* validate_speedtest_url on its own (SpecValidate).                       *)
(***************************************************************************)
\* ShapeOK with any decimal digit of Unicode where ShapeOK wants 0..9
ShapeOKAnyScript(u) ==
    LET t == Trimmed(u)
        p == Len(Prefix)
    IN  /\ Len(t) > p + 2
        /\ SubSeq(t, 1, p) = Prefix
        /\ t[p + 1] \in {"a", "d", "i"}
        /\ t[p + 2] = "/"
        /\ \A k \in (p + 3)..Len(t) : t[k] \in AsciiDigits \cup UnicodeDigits

\* the call left the handler's state and the reports directory alone
ProbeTouchedNothing ==
    /\ files = << >>
    /\ \A b \in Batches : response[b] = NoResponse /\ valid_urls[b] = << >>

\* C11: validate_speedtest_url(url) is true if and only if url, trimmed of
\* surrounding whitespace, is exactly the prefix, one of a, d, i, a slash and
\* one or more of the digits 0..9 with nothing after them, compared with
\* case; and the call changes nothing else.
C11_ValidIffShape ==
    probe.phase = "returned" =>
        /\ probe.result <=> ShapeOK(probe.url)
        /\ ProbeTouchedNothing

\* C11, as the code decides it: the same, the characters after the slash
\* being decimal digits of any script.
C11_ValidIffShapeInAnyScript ==
    probe.phase = "returned" =>
        /\ probe.result <=> ShapeOKAnyScript(probe.url)
        /\ ProbeTouchedNothing

\* a text whose only character after the slash is a decimal digit that is
\* none of 0..9 was accepted
C11_Witness ==
    /\ probe.phase = "returned"
    /\ probe.result
    /\ probe.url = Prefix \o << "a", "/", "ARABIC-INDIC DIGIT THREE" >>


(***************************************************************************)
(* The validation step of process_speedtest (Spec).                        *)
(***************************************************************************)
IsNonBlank(u) == TrimTable[u] # << >>

IsInvalidNotice(m) == Len(m) = 2 /\ m[1] = "Invalid URL: "

IsPrefixOf(s, t) == Len(s) <= Len(t) /\ s = SubSeq(t, 1, Len(s))

\* C12: once the validation step has run, valid_urls is the trimmed entries
\* that have the shape and invalid_urls the trimmed non-blank entries that
\* lack it, each in input order with its duplicates, so that every non-blank
\* entry is in exactly one list; a blank entry is in neither, no capture is
\* attempted for it and no "Invalid URL" notice is returned for it.
C12_ValidationPartitions ==
    (pc[1] # "start" /\ urls[1] # << >>) =>
        /\ valid_urls[1] = ValidInput(urls[1])
        /\ invalid_urls[1] = InvalidInput(urls[1])
        /\ Len(valid_urls[1]) + Len(invalid_urls[1]) = Len(SelectSeq(urls[1], IsNonBlank))
        /\ \A k \in DOMAIN valid_urls[1] : valid_urls[1][k] # << >>
        /\ \A k \in DOMAIN invalid_urls[1] : invalid_urls[1][k] # << >>
        /\ IsPrefixOf(UrlsOf(calls[1]), ValidInput(urls[1]))
        /\ response[1].success =>
              SelectSeq(response[1].errors, IsInvalidNotice) =
                  [k \in DOMAIN invalid_urls[1] |-> << "Invalid URL: ", InvalidInput(urls[1])[k] >>]

\* a padded URL given twice around a blank entry: both copies were
\* captured in trimmed form and the blank left no trace
C12_Witness ==
    /\ pc[1] = "done"
    /\ response[1].success
    /\ urls[1] = << UrlD22Padded, BlankText, UrlD22Padded >>
    /\ valid_urls[1] = << UrlD22, UrlD22 >>
    /\ Len(calls[1]) = 2
    /\ response[1].errors = << >>


(***************************************************************************)
(* Assembly failing after captures succeeded (Spec).                       *)
(***************************************************************************)
\* request b left a complete report in the directory
ReportWritten(b) == \E f \in DOMAIN files : files[f].by = b /\ files[f].complete

\* the detail is the heading followed by the text of the exception that the
\* decoding or the saving raised, and nothing more
OnlyTheAssemblyFault(detail) ==
    \/ detail = << "Error creating Excel file: ", "cannot identify image file" >>
    \/ \E fault \in SaveFaults \ {"none"} :
          detail = << "Error creating Excel file: ", "OSError: ", fault >>

\* C13: a finished request of which at least one capture succeeded and whose
\* report was not written answers status 500 with the detail
\* "Error creating Excel file: ..." and no success result; the capture-failure
\* messages and the invalid URLs gathered on the way are not in the answer.
C13_AssemblyErrorSurfaced ==
    (pc[1] = "done" /\ ReturnedUrls(1) # << >> /\ ~ReportWritten(1)) =>
        /\ IsAssemblyError(response[1])
        /\ ~response[1].success
        /\ response[1].file_path = << >>
        /\ response[1].errors = << >>
        /\ OnlyTheAssemblyFault(response[1].detail)

\* of two valid URLs one was captured and one failed, a third entry was
\* invalid, and the save failed while writing
C13_Witness ==
    /\ pc[1] = "done"
    /\ Len(ReturnedUrls(1)) = 1
    /\ Len(errors[1]) = 1
    /\ invalid_urls[1] = << NotAUrl >>
    /\ response[1].detail = << "Error creating Excel file: ", "OSError: ", "write" >>


(***************************************************************************)
(* create_excel_with_screenshots called twice on one list (SpecAsm).       *)
(***************************************************************************)
SecondRunReturned == asm.run = 2 /\ asm.phase = "saved"

\* the same label and the same image anchor at the same cell, index by index
SameLayout(ws1, ws2) ==
    /\ Len(ws1.images) = Len(ws2.images)
    /\ \A j \in DOMAIN ws1.images :
          /\ ws1.images[j].anchor = ws2.images[j].anchor
          /\ ws1.cells[ws1.images[j].anchor] = ws2.cells[ws2.images[j].anchor]
    /\ ws1.cells = ws2.cells

SecondOf(now) == now \div TicksPerSecond

\* C14 as stated: the second of two calls on the same list lays the report
\* out as the first did, and the file name it returns differs from the
\* first one.
C14_SameLayoutOtherName ==
    SecondRunReturned =>
        /\ SameLayout(asm.first.ws, asm.st.ws)
        /\ asm.name # asm.first.name

\* C14, amended: the second call lays the report out as the first did, and
\* the two file names differ exactly when the two calls read the clock in
\* different seconds.
C14_SameLayoutNameBySecond ==
    SecondRunReturned =>
        /\ SameLayout(asm.first.ws, asm.st.ws)
        /\ (asm.name # asm.first.name) <=> (SecondOf(asm.at) # SecondOf(asm.first.at))

\* seven images laid out twice, the second call one second after the first
C14_Witness ==
    /\ SecondRunReturned
    /\ Len(asm.data) = 7
    /\ Len(asm.st.ws.images) = 7
    /\ asm.first.name = << "speedtest_results_", 0, ".xlsx" >>
    /\ asm.name = << "speedtest_results_", 1, ".xlsx" >>


(***************************************************************************)
(* The readiness tiers of capture_speedtest_screenshot (Spec), read off    *)
(* the page operations of the running call.                                *)
(***************************************************************************)
Did(k, step, ok) == steps[1][k].step = step /\ steps[1][k].ok = ok

Tried(step) == \E k \in DOMAIN steps[1] : steps[1][k].step = step

TimesTried(step) == Cardinality({k \in DOMAIN steps[1] : steps[1][k].step = step})

NavigationSucceeded == \E k \in DOMAIN steps[1] : Did(k, "goto", TRUE)

\* the call has left its try block, by return or by exception
LeftTry == pc[1] \in {"finally", "finally_browser", "exit"}

\* C15: after a successful navigation the next operation is the primary
\* marker wait; the secondary marker wait comes only directly after a failed
\* primary wait, the 5s delay only directly after a failed secondary wait
\* that followed a failed primary wait; the 2s settle delay comes directly
\* after the readiness operation that succeeded, and the screenshot directly
\* after the settle delay, which has then run exactly once.
C15_TieredReadiness ==
    /\ \A k \in DOMAIN steps[1] :
          /\ (Did(k, "goto", TRUE) /\ k < Len(steps[1])) => steps[1][k + 1].step = "primary"
          /\ steps[1][k].step = "primary" => (k > 1 /\ Did(k - 1, "goto", TRUE))
          /\ steps[1][k].step = "secondary" => (k > 1 /\ Did(k - 1, "primary", FALSE))
          /\ steps[1][k].step = "fallback" =>
                (k > 2 /\ Did(k - 1, "secondary", FALSE) /\ Did(k - 2, "primary", FALSE))
          /\ steps[1][k].step = "settle" =>
                /\ k > 1
                /\ \/ Did(k - 1, "primary", TRUE)
                   \/ Did(k - 1, "secondary", TRUE)
                   \/ Did(k - 1, "fallback", TRUE)
          /\ steps[1][k].step = "screenshot" => (k > 1 /\ Did(k - 1, "settle", TRUE))
    /\ \A step \in {"primary", "secondary", "fallback", "settle", "screenshot"} :
          TimesTried(step) <= 1
    /\ (pc[1] = "screenshot" \/ Tried("screenshot")) => TimesTried("settle") = 1

\* both marker waits failed, the 5s delay and the 2s delay ran, and the
\* screenshot was taken
C15_Witness ==
    /\ pc[1] = "finally"
    /\ Len(steps[1]) = 9
    /\ Did(5, "primary", FALSE)
    /\ Did(6, "secondary", FALSE)
    /\ Did(7, "fallback", TRUE)
    /\ Did(8, "settle", TRUE)
    /\ Did(9, "screenshot", TRUE)


\* the operation that raised out of the call, if one did: the last one
FailedLast(step) ==
    /\ steps[1] # << >>
    /\ Did(Len(steps[1]), step, FALSE)

\* no exception leaves the call from a marker wait: a failed marker wait is
\* followed by the next tier
MarkerFailuresSwallowed ==
    /\ \A k \in DOMAIN steps[1] :
          (Did(k, "primary", FALSE) \/ Did(k, "secondary", FALSE)) =>
              (k < Len(steps[1]) \/ pc[1] \in {"secondary", "fallback"})
    /\ exc[1] # << >> => ~(FailedLast("primary") \/ FailedLast("secondary"))

\* C16 as stated: a failed marker wait never ends the call, and a call that
\* navigated and has left its try block has gone on to the settle delay and,
\* the settle delay done, to the screenshot.
C16_NavigatedAlwaysSettles ==
    /\ MarkerFailuresSwallowed
    /\ (LeftTry /\ NavigationSucceeded) =>
          /\ Tried("settle")
          /\ Tried("screenshot") \/ FailedLast("settle")

\* C16, amended: a failed marker wait never ends the call; a call that
\* navigated and has left its try block has gone on to the settle delay
\* unless the 5s delay that follows two failed marker waits itself raised,
\* which ends the call with that exception, and, the settle delay done, to
\* the screenshot.
C16_NavigatedSettlesUnlessDelayRaises ==
    /\ MarkerFailuresSwallowed
    /\ (LeftTry /\ NavigationSucceeded) =>
          /\ Tried("settle") \/ FailedLast("fallback")
          /\ Tried("settle") => (Tried("screenshot") \/ FailedLast("settle"))
    /\ (LeftTry /\ FailedLast("fallback")) => exc[1] = << "wait_for_timeout" >>

\* the primary wait failed, the secondary wait succeeded, and the call went
\* on to the settle delay and returned its screenshot
C16_Witness ==
    /\ pc[1] = "finally"
    /\ exc[1] = << >>
    /\ Len(steps[1]) = 8
    /\ Did(5, "primary", FALSE)
    /\ Did(6, "secondary", TRUE)
    /\ Did(7, "settle", TRUE)
    /\ Did(8, "screenshot", TRUE)


(***************************************************************************)
(* The cursor of create_excel_with_screenshots between placements          *)
(* (SpecAsm).                                                              *)
(***************************************************************************)
Cursor == << asm.st.current_row, asm.st.current_col, asm.st.images_in_row >>

\* the cursor that wraps as soon as the band is full, after n placements
EagerCursor(n) == << 1 + 30 * (n \div 5), 1 + 2 * (n % 5), n % 5 >>

\* the cursor once the wrap that is due has been made
WithDueWrap(c) == IF c[3] >= 5 THEN << c[1] + 30, 1, 0 >> ELSE c

\* C17 as stated: the cursor starts at (1, 1, 0); after every placement
\* countInBand is in 0..4 and col = 1 + 2*countInBand, the wrap to
\* (row + 30, 1, 0) being made at once when countInBand reaches 5, so that
\* after 5k placements the cursor is (1 + 30k, 1, 0).
C17_CursorWrapsAtOnce ==
    /\ Cursor[3] \in 0..4
    /\ Cursor[2] = 1 + 2 * Cursor[3]
    /\ Cursor = EagerCursor(asm.done)

\* C17, amended: the cursor starts at (1, 1, 0) and each placement ends with
\* col += 2 and countInBand += 1; the wrap to (row + 30, 1, 0) is made at
\* the start of the next placement, so that between placements countInBand
\* is in 0..5 (1..5 after a placement), col = 1 + 2*countInBand, after 5k
\* placements (k >= 1) the cursor is (1 + 30(k - 1), 11, 5), and the cursor
\* with its due wrap made is the one that wraps at once.
C17_CursorWrapsAtNextPlacement ==
    /\ Cursor[3] \in 0..5
    /\ asm.done > 0 => Cursor[3] \in 1..5
    /\ Cursor[2] = 1 + 2 * Cursor[3]
    /\ asm.done = 0 => Cursor = << 1, 1, 0 >>
    /\ (asm.done > 0 /\ asm.done % 5 = 0) =>
          Cursor = << 1 + 30 * ((asm.done \div 5) - 1), 11, 5 >>
    /\ WithDueWrap(Cursor) = EagerCursor(asm.done)

\* ten images placed: the cursor still stands after the second band
C17_Witness ==
    /\ asm.done = 10
    /\ Cursor = << 31, 11, 5 >>


(***************************************************************************)
(* The cells create_excel_with_screenshots uses (SpecAsm).                 *)
(***************************************************************************)
AnchorOf(j) == asm.st.ws.images[j].anchor

\* C18: every image is anchored at a cell whose column is one of A, C, E,
\* G, I (columns 1, 3, 5, 7, 9, named by one letter) and whose row is 1 plus
\* a multiple of 30, and the next placement will be too; no two images have
\* the same anchor, and the cell of every image still holds the URL it was
\* placed with.
C18_AnchorsNeverCollide ==
    /\ \A j \in DOMAIN asm.st.ws.images :
          /\ Len(AnchorOf(j)[1]) = 1
          /\ AnchorOf(j)[1][1] \in {"A", "C", "E", "G", "I"}
          /\ AnchorOf(j)[2] % 30 = 1
          /\ asm.st.ws.cells[AnchorOf(j)] = asm.data[j][1]
    /\ \A j, k \in DOMAIN asm.st.ws.images : j # k => AnchorOf(j) # AnchorOf(k)
    /\ WithDueWrap(Cursor)[2] \in {1, 3, 5, 7, 9}
    /\ WithDueWrap(Cursor)[1] % 30 = 1

\* six images of one URL placed: the fifth at I1, the sixth at A31
C18_Witness ==
    /\ Len(asm.st.ws.images) = 6
    /\ asm.data[1][1] = asm.data[6][1]
    /\ AnchorOf(5) = << << "I" >>, 1 >>
    /\ AnchorOf(6) = << << "A" >>, 31 >>


(***************************************************************************)
(* The end of process_speedtest (SpecFair).                                *)
(***************************************************************************)
Refused(r, status, detail) ==
    r.status = status /\ r.detail = << detail >> /\ ~r.success /\ r.file_path = << >>

\* the outcomes, by number, that the answer r is
OutcomesOf(r) ==
    {n \in 1..5 :
        \/ n = 1 /\ Refused(r, 400, "No URLs provided")
        \/ n = 2 /\ Refused(r, 400, "No valid speedtest.net URLs found")
        \/ n = 3 /\ Refused(r, 500, "Failed to capture any screenshots")
        \/ n = 4 /\ IsAssemblyError(r) /\ ~r.success /\ r.file_path = << >>
        \/ n = 5 /\ r.success /\ r.status = 200 /\ r.file_path # << >>}

FinishedInOneOutcome ==
    IF pc[1] = "done"
    THEN /\ Cardinality(OutcomesOf(response[1])) = 1
         /\ response[1].success =>
               /\ ReturnedUrls(1) # << >>
               /\ Len(response[1].file_path) = 3
               /\ response[1].file_path[3] \in DOMAIN files
               /\ files[response[1].file_path[3]].complete
    ELSE response[1] = NoResponse

\* C19: every call of process_speedtest finishes, each awaited browser
\* operation returning or raising; once finished its answer is exactly one
\* of "No URLs provided", "No valid speedtest.net URLs found", "Failed to
\* capture any screenshots", an assembly error, or a success carrying a file
\* path, and it stays so; a success is answered only when a capture
\* succeeded and the report file was written whole.  Until it finishes
\* nothing is answered.
C19_FinishesInOneOutcome ==
    /\ <>[](pc[1] = "done")
    /\ []FinishedInOneOutcome

\* a request of a URL and a non-URL was answered with a success after the
\* one capture went through every readiness tier
C19_Witness ==
    /\ pc[1] = "done"
    /\ urls[1] = << UrlA1, NotAUrl >>
    /\ OutcomesOf(response[1]) = {5}
    /\ response[1].file_path[3] \in DOMAIN files

============================================================================
